---- MODULE Spec2Model ----
(***************************************************************************)
(* Scanned-document ingestion pipeline of canvas-parent-cli.               *)
(*                                                                         *)
(* Two pipeline instances (a DriveProcessor and a DropboxProcessor) poll   *)
(* their source folders and run every new file through                     *)
(*   download -> digest / duplicate check -> OCR -> parse -> detect        *)
(*   student -> match assignment -> save -> move file                      *)
(* against one shared scanned_documents table.  The manual assignment      *)
(* actions (cli/assign_document.py, web/assign.py) update rows of that     *)
(* table out of band.                                                      *)
(***************************************************************************)
EXTENDS Integers, Sequences, FiniteSets, TLC

(* ---- bounds ---------------------------------------------------------- *)
NumUploaded == 2     \* files uploaded to the source folders
MaxRuns == 1         \* polling runs (process_shared_folder / process_folder) per instance
MaxPolls == 2        \* iterations of the daemon loop
MaxAssignments == 2  \* assignments of the student a document is matched against

(* ---- fixed universes -------------------------------------------------- *)
Instances  == {"drive", "dropbox"}
Contents   == {"A", "B"}           \* distinct byte contents
Students   == {1, 2}               \* students.id
Thresholds == {70, 90}             \* configured confidence_threshold values
None       == 0                    \* NULL / Python None for ids

\* files that can be uploaded: two to the Drive folder, one to the Dropbox folder
Files == {<<"drive", 1>>, <<"drive", 2>>, <<"dropbox", 1>>}

\* source column written by each processor
SourceOf(i) == IF i = "drive" THEN "google_drive" ELSE "dropbox"

\* hashlib.sha256(content).hexdigest(): collision free on the contents used
Sha256(c) == CASE c = "A" -> "sha_a" [] c = "B" -> "sha_b"

(* ---- state ------------------------------------------------------------ *)
VARIABLES
    content,     \* bytes of each uploaded file
    location,    \* folder each file currently lies in
    docs,        \* scanned_documents table, row id = index
    pc,          \* per instance: position in the pipeline
    runs,        \* per instance: polling runs started
    batch,       \* per instance: new_files still to process
    cur,         \* per instance: file being processed
    loc,         \* per instance: locals of process_file_with_detection
    calls,       \* per instance: stages executed for the current file
    results,     \* per instance: results of the current run
    students,    \* students table: ids of the students in the directory
    detector,    \* per instance: StudentDetector._students, the cached list
    call,        \* a direct call of a detector or matcher function: name, arguments
    ret          \* the value that call returned

vars == <<content, location, docs, pc, runs, batch, cur, loc, calls,
          results, students, detector, call, ret>>

(* ---- OCR and parser ---------------------------------------------------- *)
Null   == "null"     \* None for optional strings
NoNum  == -1         \* None for optional numbers

\* OCRResult.full_text of a successful OCR of the content
FullText(c) == CASE c = "A" -> "text_a" [] c = "B" -> "text_b"

\* GradeParser.parse(text): the fields the pipeline stores
Parse(text) ==
    CASE text = "text_a" ->
           [title |-> "Unit 3 Test", date |-> 10, earned |-> 42, possible |-> 50]
      [] OTHER ->
           [title |-> Null, date |-> NoNum, earned |-> NoNum, possible |-> NoNum]

(* ---- student detector -------------------------------------------------- *)
\* StudentDetection
Detection(s, c, m) == [student |-> s, confidence |-> c, method |-> m]

\* StudentDetection.is_confident
IsConfident(d) == d.confidence >= 70 /\ d.student # None

\* a cascade stage that detect() does not enter (its input is absent)
Skipped == [ran |-> FALSE, student |-> None, confidence |-> 0]
Ran(s, c) == [ran |-> TRUE, student |-> s, confidence |-> c]

\* values the stages _detect_from_cover_sheet / _name / _course / _assignment return
CoverResults      == {Ran(None, 0), Ran(1, 98)}
NameResults       == {Skipped, Ran(None, 0), Ran(2, 70)}
CourseResults     == {Skipped, Ran(None, 50)}
AssignmentResults == {Skipped, Ran(2, 52)}

\* confidence constants of StudentDetector
QR_CODE_CONFIDENCE == 100
COVER_SHEET_CONFIDENCE == 98
EXACT_NAME_CONFIDENCE == 95
PARTIAL_NAME_CONFIDENCE == 70
UNIQUE_COURSE_CONFIDENCE == 85
SHARED_COURSE_CONFIDENCE == 50
ASSIGNMENT_MATCH_CONFIDENCE == 75

\* the stages of detect() in the order of the code; a stage's method name
StageNames ==
    <<"qr_code", "cover_sheet", "ocr_name", "course_match", "assignment_match">>

\* the reasons list a stage's result carries (never empty)
StageReasons(k) == <<StageNames[k]>>

\* bug: a stage's result is returned as soon as it names a student
StageReturnsAnyStudent(k, r) == r.student # None

\* the test after each stage: "if result.student" for the QR stage,
\* "if result.is_confident" for the others
StageReturns(k, r) == IF k = 1 THEN r.student # None ELSE IsConfident(r)

\* reasons.extend(result.reasons): every stage but the QR stage adds its reasons
Extend(reasons, k) == IF k = 1 THEN reasons ELSE reasons \o StageReasons(k)

\* StudentDetector.detect from stage k on; consulted lists the stages called
RECURSIVE Cascade(_, _, _, _)
Cascade(stages, k, reasons, consulted) ==
    IF k > Len(stages)
    THEN [ student |-> None, confidence |-> 0, method |-> "ambiguous",
           reasons |-> IF reasons = <<>>
                       THEN <<"No identifying information found in document">>
                       ELSE reasons,
           consulted |-> consulted ]
    ELSE IF ~stages[k].ran
    THEN Cascade(stages, k + 1, reasons, consulted)
    ELSE IF StageReturns(k, stages[k])
    THEN [ student |-> stages[k].student, confidence |-> stages[k].confidence,
           method |-> StageNames[k], reasons |-> StageReasons(k),
           consulted |-> Append(consulted, StageNames[k]) ]
    ELSE Cascade(stages, k + 1, Extend(reasons, k), Append(consulted, StageNames[k]))

\* StudentDetector.detect(parsed) as called by the processors (no qr_data)
Detect(cover, name, course, asg) ==
    LET d == Cascade(<<Skipped, cover, name, course, asg>>, 1, <<>>, <<>>)
    IN  Detection(d.student, d.confidence, d.method)

\* _detect_from_cover_sheet: positions are offsets in the cleaned head window
\* (first 500 characters) and tail window (last 500 characters, empty for a
\* text of at most 500 characters)
NotFound == -1
Inf == 1000                  \* float('inf'): above every offset
Positions == {0, 199, 200, 300}

\* where a student's first name and full name are found in one window: the
\* first name is the first word of the full name, so it is found at or before it
Occurrences ==
    { <<NotFound, NotFound>> }
        \cup { <<p, NotFound>> : p \in Positions }
        \cup { pq \in Positions \X Positions : pq[1] <= pq[2] }

\* "if name_variant in first_part_clean": one variant in the head window
HeadStep(st, student, pos) ==
    IF pos # NotFound /\ pos < st.best_position
    THEN [best_match |-> student, best_position |-> pos, found_at_end |-> FALSE]
    ELSE st

\* "if name_variant in last_part_clean": one variant in the tail window
TailStep(st, student, pos) ==
    IF pos = NotFound THEN st
    ELSE IF pos < 200 /\ (st.best_position > 200 \/ st.found_at_end)
    THEN [best_match |-> student, best_position |-> pos, found_at_end |-> TRUE]
    ELSE IF pos < st.best_position /\ st.best_position > 200
    THEN [best_match |-> student, best_position |-> pos, found_at_end |-> TRUE]
    ELSE st

\* the loop "for student in self.students" from the k-th student on
RECURSIVE CoverScan(_, _, _)
CoverScan(found, k, st) ==
    IF k > Cardinality(Students) THEN st
    ELSE LET h == found[k].head
             t == found[k].tail
             st1 == HeadStep(HeadStep(st, k, h[1]), k, h[2])
             st2 == TailStep(TailStep(st1, k, t[1]), k, t[2])
         IN  CoverScan(found, k + 1, st2)

\* _detect_from_cover_sheet(text), found giving the text's name occurrences
DetectFromCoverSheet(found) ==
    LET st == CoverScan(found, 1,
                  [best_match |-> None, best_position |-> Inf, found_at_end |-> FALSE])
    IN  IF st.best_match # None /\ st.best_position < 200
        THEN [ student |-> st.best_match, confidence |-> COVER_SHEET_CONFIDENCE,
               method |-> "cover_sheet", position |-> st.best_position ]
        ELSE IF st.best_match # None
        THEN [ student |-> st.best_match, confidence |-> PARTIAL_NAME_CONFIDENCE,
               method |-> "cover_sheet", position |-> st.best_position ]
        ELSE [ student |-> None, confidence |-> 0, method |-> "cover_sheet",
               position |-> Inf ]

\* SequenceMatcher ratios, in thousandths
TITLE_SIMILARITY_THRESHOLD == 700
Similarities == {0, 699, 700, 805, 999, 1000}

\* int(similarity * k) of a ratio in thousandths
IntOf(similarity, k) == (similarity * k) \div 1000

\* how the parsed name relates to one student's name: equal, same first word,
\* same last word, and their ratio (1 exactly when equal)
NameRelations ==
    { [exact |-> TRUE, first |-> TRUE, last |-> TRUE, similarity |-> 1000] }
        \cup [exact : {FALSE}, first : BOOLEAN, last : BOOLEAN,
              similarity : Similarities \ {1000}]

\* the loop of _detect_from_name from the k-th student on
RECURSIVE NameScan(_, _, _)
NameScan(rel, k, best) ==
    IF k > Cardinality(Students)
    THEN IF best.student # None /\ best.confidence >= PARTIAL_NAME_CONFIDENCE
         THEN Detection(best.student, best.confidence, "ocr_name")
         ELSE Detection(None, best.confidence, "ocr_name")
    ELSE IF rel[k].exact
    THEN Detection(k, EXACT_NAME_CONFIDENCE, "ocr_name")
    ELSE LET b1 == IF rel[k].first /\ PARTIAL_NAME_CONFIDENCE > best.confidence
                   THEN [student |-> k, confidence |-> PARTIAL_NAME_CONFIDENCE]
                   ELSE best
             b2 == IF rel[k].last /\ PARTIAL_NAME_CONFIDENCE > b1.confidence
                   THEN [student |-> k, confidence |-> PARTIAL_NAME_CONFIDENCE]
                   ELSE b1
             fuzzy_confidence == IntOf(rel[k].similarity, 100)
             b3 == IF rel[k].similarity > 800 /\ fuzzy_confidence > b2.confidence
                   THEN [student |-> k, confidence |-> fuzzy_confidence]
                   ELSE b2
         IN  NameScan(rel, k + 1, b3)

\* _detect_from_name(name), rel relating the name to each student's
DetectFromName(rel) == NameScan(rel, 1, [student |-> None, confidence |-> 0])

\* _detect_from_assignment(title, date): best_similarity is the highest ratio
\* of the title with an assignment name, best_match the owner of that assignment
DetectFromAssignment(best_similarity, best_match) ==
    IF best_match # None /\ best_similarity >= TITLE_SIMILARITY_THRESHOLD
    THEN Detection(best_match, IntOf(best_similarity, ASSIGNMENT_MATCH_CONFIDENCE),
                   "assignment_match")
    ELSE Detection(None, 0, "assignment_match")

\* every value the stages can return, by the return statements of each stage
QrReturns ==
    {Skipped, Ran(None, 0)} \cup { Ran(s, QR_CODE_CONFIDENCE) : s \in Students }
CoverReturns ==
    {Skipped, Ran(None, 0)}
        \cup { Ran(s, c) : s \in Students,
                           c \in {COVER_SHEET_CONFIDENCE, PARTIAL_NAME_CONFIDENCE} }
NameReturns ==
    {Skipped, Ran(None, 0)}
        \cup { Ran(s, c) : s \in Students,
                           c \in {EXACT_NAME_CONFIDENCE, PARTIAL_NAME_CONFIDENCE, 80} }
CourseReturns ==
    {Skipped, Ran(None, 0), Ran(None, SHARED_COURSE_CONFIDENCE)}
        \cup { Ran(s, UNIQUE_COURSE_CONFIDENCE) : s \in Students }
AssignmentReturns ==
    {Skipped, Ran(None, 0)}
        \cup { Ran(s, c) : s \in Students,
                           c \in {52, 69, 70, ASSIGNMENT_MATCH_CONFIDENCE} }

\* the results of a stage that searches the given students
Among(stage_results, known) ==
    { r \in stage_results : r.student \in known \cup {None} }

\* detect() outcomes: the cover-sheet, name and course stages iterate over the
\* cached self.students, the assignment stage queries the tables
DetectOutcomes(cached, table) ==
    { Detect(cv, nm, co, asg) :
        cv \in Among(CoverResults, cached), nm \in Among(NameResults, cached),
        co \in Among(CourseResults, cached),
        asg \in Among(AssignmentResults, table) }

\* StudentDetector.__init__: nothing cached
NoCache == [loaded |-> FALSE, students |-> {}]

\* the students property: query the table on first use, then the cached list
Cached(cache, table) ==
    IF cache.loaded THEN cache ELSE [loaded |-> TRUE, students |-> table]

(* ---- assignment matcher ------------------------------------------------ *)
\* MatchResult
Match(a, c, m) == [assignment |-> a, confidence |-> c, method |-> m]

\* assignments.id of the assignments in each student's courses
AssignmentsOf(s) == IF s = 1 THEN {1} ELSE {2}

\* match scores are held in units of 1/Scale point and the three sub-scores in
\* units of 1/SubScale point, which keeps the weighted sum and the linear date
\* decay 100 * (1 - days_diff / (date_tolerance_days + 1)) integral
DATE_TOLERANCE_DAYS == 7
TITLE_WEIGHT == 5            \* title_weight 0.5, in tenths
DATE_WEIGHT == 3             \* date_weight 0.3, in tenths
COURSE_WEIGHT == 2           \* course_weight 0.2, in tenths
SubScale == DATE_TOLERANCE_DAYS + 1
Scale == 10 * SubScale
Points(x) == x * Scale

\* (score, method) pairs _score_match / _determine_method give a candidate
ScoreOutcomes == {<<Points(95), "title+date">>}

\* datetimes are hours; a parsed document without a date
NoDate == -1
Now == 1200                  \* datetime.now()
Abs(x) == IF x < 0 THEN -x ELSE x
Min(x, y) == IF x <= y THEN x ELSE y

\* abs((parsed.date - assignment.due_at).days): timedelta.days rounds down
DaysDiff(date, due_at) == Abs((date - due_at) \div 24)

\* bug: the bonus for strong signals is added without the cap
BonusUncapped(total) == total + Points(10)

\* total = min(total + 10, 100)
Bonus(total) == Min(total + Points(10), Points(100))

\* bug: the linear formula is used beyond the tolerance too
DateProximityNoCutoff(days_diff) ==
    IF days_diff = 0 THEN 100 * SubScale ELSE 100 * (SubScale - days_diff)

\* scores["date"] for a day difference, in 1/SubScale point:
\* 100 * (1 - days_diff / (date_tolerance_days + 1)) within the tolerance
DateProximity(days_diff) ==
    IF days_diff = 0 THEN 100 * SubScale
    ELSE IF days_diff <= DATE_TOLERANCE_DAYS THEN 100 * (SubScale - days_diff)
    ELSE 0

\* bug: a sub-score of exactly 70 counts as a strong signal
StrongSignalsInclusive(scores) ==
    Cardinality({ k \in 1..3 : scores[k] >= 70 * SubScale })

\* strong_signals = sum(1 for s in scores.values() if s > 70)
StrongSignals(scores) ==
    Cardinality({ k \in 1..3 : scores[k] > 70 * SubScale })

\* _score_match(parsed, assignment): (total, reasons).  parsed has title and
\* course (present or not) and date; the assignment has the similarity (percent)
\* of its name and of its course name with the parsed ones, and due_at
ScoreMatch(parsed, a) ==
    LET title == IF parsed.title THEN a.title_sim * SubScale ELSE 0
        days_diff == DaysDiff(parsed.date, a.due_at)
        date == IF parsed.date = NoDate THEN 0 ELSE DateProximity(days_diff)
        course == IF parsed.course THEN a.course_sim * SubScale ELSE 0
        r1 == IF parsed.title /\ a.title_sim > 80 THEN <<"Title match">>
              ELSE IF parsed.title /\ a.title_sim > 50 THEN <<"Partial title match">>
              ELSE <<>>
        r2 == IF parsed.date = NoDate THEN <<>>
              ELSE IF days_diff = 0 THEN <<"Exact date match">>
              ELSE IF days_diff <= DATE_TOLERANCE_DAYS THEN <<"Date within days">>
              ELSE <<>>
        r3 == IF parsed.course /\ a.course_sim > 70 THEN <<"Course name match">>
              ELSE <<>>
        total == title * TITLE_WEIGHT + date * DATE_WEIGHT + course * COURSE_WEIGHT
        strong_signals == StrongSignals(<<title, date, course>>)
    IN  IF strong_signals >= 2
        THEN [ total |-> Bonus(total), subs |-> <<title, date, course>>,
               reasons |-> r1 \o r2 \o r3 \o <<"Multiple strong matches">> ]
        ELSE [ total |-> total, subs |-> <<title, date, course>>,
               reasons |-> r1 \o r2 \o r3 ]

\* bug: a title reason alone decides the method
DetermineMethodTitleFirst(reasons) ==
    IF \E k \in 1..Len(reasons) : reasons[k] \in {"Title match", "Partial title match"}
    THEN "title"
    ELSE "date"

\* _determine_method(reasons)
DetermineMethod(reasons) ==
    LET has_title == \E k \in 1..Len(reasons) :
                        reasons[k] \in {"Title match", "Partial title match"}
        has_date == \E k \in 1..Len(reasons) :
                        reasons[k] \in {"Exact date match", "Date within days"}
    IN  IF has_title /\ has_date THEN "title+date"
        ELSE IF has_title THEN "title"
        ELSE IF has_date THEN "date"
        ELSE "auto"

\* _get_candidates(student_id, None, date): the student's assignments due within
\* twice the tolerance of the date, or in the last 30 days without a date
GetCandidates(date, assignments) ==
    SelectSeq(assignments, LAMBDA a :
        IF date # NoDate
        THEN /\ a.due_at >= date - DATE_TOLERANCE_DAYS * 2 * 24
             /\ a.due_at <= date + DATE_TOLERANCE_DAYS * 2 * 24
        ELSE a.due_at >= Now - 30 * 24)

\* the MatchResult of a scored candidate
Scored(parsed, a) ==
    LET sc == ScoreMatch(parsed, a)
    IN  [ assignment |-> a.id, confidence |-> sc.total,
          method |-> DetermineMethod(sc.reasons), reasons |-> sc.reasons,
          subs |-> sc.subs ]

\* scored candidate lists _get_candidates + _score_match can produce
ScoredLists(s) ==
    {<<>>} \cup { <<Match(a, so[1], so[2])>> : a \in AssignmentsOf(s), so \in ScoreOutcomes }

\* bug: among equal best scores the last candidate is returned
FindMatchLastBest(scored) ==
    IF scored = <<>>
    THEN Match(None, 0, "none")
    ELSE LET best == CHOOSE k \in 1..Len(scored) :
                        /\ \A j \in 1..Len(scored) : scored[j].confidence <= scored[k].confidence
                        /\ \A j \in (k+1)..Len(scored) : scored[j].confidence < scored[k].confidence
         IN scored[best]

\* AssignmentMatcher.find_match: best candidate, or the empty result
FindMatch(scored) ==
    IF scored = <<>>
    THEN Match(None, 0, "none")
    ELSE LET best == CHOOSE k \in 1..Len(scored) :
                        /\ \A j \in 1..Len(scored) : scored[j].confidence <= scored[k].confidence
                        /\ \A j \in 1..(k-1) : scored[j].confidence < scored[k].confidence
         IN scored[best]

MatchOutcomes(s) == { FindMatch(sc) : sc \in ScoredLists(s) }

\* find_match(parsed, student_id) on the student's assignments
FindMatchOf(parsed, assignments) ==
    LET candidates == GetCandidates(parsed.date, assignments)
    IN  IF candidates = <<>>
        THEN [ assignment |-> None, confidence |-> 0, method |-> "none",
               reasons |-> <<"No candidate assignments found">>, subs |-> <<0, 0, 0>> ]
        ELSE FindMatch([k \in 1..Len(candidates) |-> Scored(parsed, candidates[k])])

\* results.sort(key=confidence, reverse=True): m placed after the results that
\* are not below it (the sort is stable)
InsertSorted(sorted, m) ==
    LET k == Cardinality({ j \in 1..Len(sorted) : sorted[j].confidence >= m.confidence })
    IN  SubSeq(sorted, 1, k) \o <<m>> \o SubSeq(sorted, k + 1, Len(sorted))

RECURSIVE SortByConfidence(_)
SortByConfidence(rs) ==
    IF rs = <<>> THEN <<>>
    ELSE InsertSorted(SortByConfidence(SubSeq(rs, 1, Len(rs) - 1)), rs[Len(rs)])

\* find_matches(parsed, student_id, limit=limit)
FindMatchesOf(parsed, assignments, limit) ==
    LET candidates == GetCandidates(parsed.date, assignments)
        rs == SortByConfidence([k \in 1..Len(candidates) |-> Scored(parsed, candidates[k])])
    IN  SubSeq(rs, 1, Min(limit, Len(rs)))

\* the parsed documents and the assignments of the student that are tried
ParsedDocs == [title : BOOLEAN, date : {NoDate, 240}, course : BOOLEAN]
AssignmentAttrs ==
    [title_sim : {0, 60, 100}, due_at : {240, 263, 432, 720}, course_sim : {0, 100}]

\* the assignments of the student in query order, the id being the position
AssignmentTables ==
    UNION { { [k \in 1..n |->
                 [id |-> k, title_sim |-> t[k].title_sim, due_at |-> t[k].due_at,
                  course_sim |-> t[k].course_sim]] :
              t \in [1..n -> AssignmentAttrs] } : n \in 0..MaxAssignments }

(* ---- scanned_documents rows and processing results ---------------------- *)
\* first name of a student, the name of the student's destination folder
FirstName(s) == IF s = 1 THEN "Alex" ELSE "Sam"

\* locals of process_file_with_detection before the first stage
NoLocals ==
    [ confidence_threshold |-> 70,
      file_hash   |-> Null,
      ocr_result  |-> "none",                \* "none", "failed" (success=False), "ok"
      ocr_text    |-> Null,                  \* ocr_result.full_text
      parsed      |-> Parse("text_b"),
      detection   |-> Detection(None, 0, "none"),
      status      |-> Null,
      student_id  |-> None,
      dest_folder |-> Null,
      matched     |-> FALSE,                 \* match is not None
      match       |-> Match(None, 0, "none"),
      document_id |-> None ]

\* DriveProcessingResult / DropboxProcessingResult (+ the stages that ran)
\* ocr is the OCRResult the result carries: "none", "failed" or "ok"
Result(f, st, doc, ok, err, ocr, stages) ==
    [ file |-> f, status |-> st, document_id |-> doc, success |-> ok,
      error |-> err, ocr_result |-> ocr, calls |-> stages ]

\* files of the instance's folder in listing order
FilesOf(i) == { f \in Files : f[1] = i }

RECURSIVE Ordered(_)
Ordered(S) ==
    IF S = {} THEN <<>>
    ELSE LET f == CHOOSE x \in S : \A y \in S : x[2] <= y[2]
         IN <<f>> \o Ordered(S \ {f})

\* get_new_files: listed files with no row carrying their source id
GetNewFiles(i) ==
    Ordered({ f \in FilesOf(i) :
                /\ location[f] = "inbox"
                /\ { d \in 1..Len(docs) : docs[d].file_id = f } = {} })

(* ---- initial state ------------------------------------------------------ *)
InitPipeline ==
    /\ \E uploaded \in SUBSET Files :
          /\ Cardinality(uploaded) = NumUploaded
          /\ location = [f \in Files |-> IF f \in uploaded THEN "inbox" ELSE "absent"]
          /\ content \in [Files -> Contents]
          /\ \A f \in Files \ uploaded : content[f] = "A"
    /\ docs = <<>>
    /\ pc = [i \in Instances |-> "idle"]
    /\ runs = [i \in Instances |-> 0]
    /\ batch = [i \in Instances |-> <<>>]
    /\ cur = [i \in Instances |-> <<i, 0>>]
    /\ loc = [i \in Instances |-> NoLocals]
    /\ calls = [i \in Instances |-> <<>>]
    /\ results = [i \in Instances |-> <<>>]
    /\ detector = [i \in Instances |-> NoCache]
    /\ call = [fn |-> "none"]
    /\ ret = [fn |-> "none"]

\* both students are in the directory from the start
Init == InitPipeline /\ students = Students

\* the directory starts with one student; the other is added later
InitDaemon == InitPipeline /\ students = {1}

(* ---- pipeline: process_shared_folder / process_folder ------------------- *)
\* process_shared_folder up to the loop: list the new files
StartRun(i) ==
    /\ pc[i] = "idle"
    /\ runs[i] < MaxRuns
    /\ runs' = [runs EXCEPT ![i] = @ + 1]
    /\ batch' = [batch EXCEPT ![i] = GetNewFiles(i)]
    /\ results' = [results EXCEPT ![i] = <<>>]
    /\ pc' = [pc EXCEPT ![i] = "next"]
    /\ UNCHANGED <<call, ret, students, detector, content, location, docs, cur, loc, calls>>

\* loop head: take the next file, or return the results
NextFile(i) ==
    /\ pc[i] = "next"
    /\ IF batch[i] = <<>>
       THEN /\ pc' = [pc EXCEPT ![i] = "idle"]
            /\ UNCHANGED <<batch, cur, loc, calls>>
       ELSE /\ cur' = [cur EXCEPT ![i] = Head(batch[i])]
            /\ batch' = [batch EXCEPT ![i] = Tail(batch[i])]
            /\ loc' = [loc EXCEPT ![i] = NoLocals]
            /\ calls' = [calls EXCEPT ![i] = <<>>]
            /\ pc' = [pc EXCEPT ![i] = "download"]
    /\ UNCHANGED <<call, ret, students, detector, content, location, docs, runs, results>>

\* return of process_file_with_detection: the result joins the run's results
Return(i, res) ==
    /\ results' = [results EXCEPT ![i] = Append(@, res)]
    /\ pc' = [pc EXCEPT ![i] = "next"]

\* bug: the exception leaves process_file_with_detection and ends the run
RaiseAborts(i, e, stages) ==
    /\ UNCHANGED results
    /\ pc' = [pc EXCEPT ![i] = "idle"]

\* except Exception: the file's result is 'failed' with str(e)
Raise(i, e, stages) ==
    Return(i, Result(cur[i], "failed", None, FALSE, e, "none", stages))

(* ---- pipeline: process_file_with_detection ------------------------------ *)
\* self.drive.download_file / self.dropbox.download_file
Download(i) ==
    /\ pc[i] = "download"
    /\ LET stages == Append(calls[i], "download") IN
       \/ /\ pc' = [pc EXCEPT ![i] = "dedup"]
          /\ calls' = [calls EXCEPT ![i] = stages]
          /\ UNCHANGED results
       \/ /\ Raise(i, "download error", stages)
          /\ UNCHANGED calls
    /\ UNCHANGED <<call, ret, students, detector, content, location, docs, runs, batch, cur, loc>>

\* bug: the lookup filters on a column that never equals the digest
CheckDuplicateMiss(file_hash) == {}

\* _check_duplicate: a row with this file_hash (.first() of an unordered query)
CheckDuplicate(file_hash) == { d \in 1..Len(docs) : docs[d].file_hash = file_hash }

\* bug: the duplicate is logged but the early return is missing
DuplicateCheckFallsThrough(i) ==
    /\ pc[i] = "dedup"
    /\ loc' = [loc EXCEPT ![i].file_hash = Sha256(content[cur[i]])]
    /\ calls' = [calls EXCEPT ![i] = Append(@, "dedup")]
    /\ pc' = [pc EXCEPT ![i] = "ocr"]
    /\ UNCHANGED <<call, ret, students, detector, content, location, docs, runs, batch, cur, results>>

\* _compute_file_hash + _check_duplicate + the duplicate return
DuplicateCheck(i) ==
    /\ pc[i] = "dedup"
    /\ LET file_hash == Sha256(content[cur[i]])
           stages == Append(calls[i], "dedup")
       IN  IF CheckDuplicate(file_hash) # {}
           THEN /\ \E existing \in CheckDuplicate(file_hash) :
                      Return(i, Result(cur[i], "duplicate", existing, TRUE,
                                       "duplicate", "none", stages))
                /\ UNCHANGED <<loc, calls>>
           ELSE /\ loc' = [loc EXCEPT ![i].file_hash = file_hash]
                /\ calls' = [calls EXCEPT ![i] = stages]
                /\ pc' = [pc EXCEPT ![i] = "ocr"]
                /\ UNCHANGED results
    /\ UNCHANGED <<call, ret, students, detector, content, location, docs, runs, batch, cur>>

\* bug: the "if not ocr_result.success" return is missing
OcrIgnoresFailure(i) ==
    /\ pc[i] = "ocr"
    /\ \E ok \in BOOLEAN :
          loc' = [loc EXCEPT ![i].ocr_result = IF ok THEN "ok" ELSE "failed",
                             ![i].ocr_text = IF ok THEN FullText(content[cur[i]])
                                             ELSE ""]
    /\ calls' = [calls EXCEPT ![i] = Append(@, "ocr")]
    /\ pc' = [pc EXCEPT ![i] = "parse"]
    /\ UNCHANGED <<call, ret, students, detector, content, location, docs, runs, batch, cur, results>>

\* self.ocr.process_image_bytes / process_file and the success test
Ocr(i) ==
    /\ pc[i] = "ocr"
    /\ LET stages == Append(calls[i], "ocr") IN
       \/ /\ loc' = [loc EXCEPT ![i].ocr_result = "ok",
                                ![i].ocr_text = FullText(content[cur[i]])]
          /\ calls' = [calls EXCEPT ![i] = stages]
          /\ pc' = [pc EXCEPT ![i] = "parse"]
          /\ UNCHANGED results
       \/ \* ocr_result.success is False
          /\ Return(i, Result(cur[i], "failed", None, FALSE, "ocr error",
                              "failed", stages))
          /\ UNCHANGED <<loc, calls>>
       \/ \* MistralOCR() raises without an API key
          /\ Raise(i, "ValueError", stages)
          /\ UNCHANGED <<loc, calls>>
    /\ UNCHANGED <<call, ret, students, detector, content, location, docs, runs, batch, cur>>

\* self._parser.parse(ocr_result.full_text)
ParseText(i) ==
    /\ pc[i] = "parse"
    /\ loc' = [loc EXCEPT ![i].parsed = Parse(loc[i].ocr_text)]
    /\ calls' = [calls EXCEPT ![i] = Append(@, "parse")]
    /\ pc' = [pc EXCEPT ![i] = "detect"]
    /\ UNCHANGED <<call, ret, students, detector, content, location, docs, runs, batch, cur, results>>

\* bug: the threshold comparison is strict
StatusOfStrict(detection, confidence_threshold) ==
    IF IsConfident(detection) /\ detection.confidence > confidence_threshold
    THEN "processed"
    ELSE "pending"

\* the status decision on the detection
StatusOf(detection, confidence_threshold) ==
    IF IsConfident(detection) /\ detection.confidence >= confidence_threshold
    THEN "processed"
    ELSE "pending"

\* bug: the folder follows the detected student, not the status
DestFolderOfStudent(status, student) ==
    IF student # None THEN FirstName(student) ELSE "Pending"

\* dest_folder: the student's first name when processed, else "Pending"
DestFolder(status, student) ==
    IF status = "processed" THEN FirstName(student) ELSE "Pending"

\* self.student_detector.detect(parsed) and the status / student / folder decision
DetectStudent(i) ==
    /\ pc[i] = "detect"
    /\ detector' = [detector EXCEPT ![i] = Cached(@, students)]
    /\ \E detection \in DetectOutcomes(detector'[i].students, students),
          confidence_threshold \in Thresholds :
          LET status == StatusOf(detection, confidence_threshold) IN
          loc' = [loc EXCEPT ![i].confidence_threshold = confidence_threshold,
                             ![i].detection = detection,
                             ![i].status = status,
                             ![i].student_id = detection.student,
                             ![i].dest_folder =
                                 DestFolder(status, detection.student)]
    /\ calls' = [calls EXCEPT ![i] = Append(@, "detect")]
    /\ pc' = [pc EXCEPT ![i] = "match"]
    /\ UNCHANGED <<call, ret, students, content, location, docs, runs, batch, cur, results>>

\* bug: the matcher is called whether or not a student was detected
HasStudentAlways(student_id) == TRUE

\* "if student_id:", the test that guards the matcher call
HasStudent(student_id) == student_id # None

\* if student_id: match = matcher.find_match(parsed, student_id)
MatchAssignment(i) ==
    /\ pc[i] = "match"
    /\ IF HasStudent(loc[i].student_id)
       THEN /\ \E m \in MatchOutcomes(loc[i].student_id) :
                  loc' = [loc EXCEPT ![i].match = m, ![i].matched = TRUE]
            /\ calls' = [calls EXCEPT ![i] = Append(@, "match")]
       ELSE UNCHANGED <<loc, calls>>
    /\ pc' = [pc EXCEPT ![i] = "save"]
    /\ UNCHANGED <<call, ret, students, detector, content, location, docs, runs, batch, cur, results>>

\* the ScannedDocument row _save_to_database_with_detection builds
NewRow(i, f, l) ==
    [ student_id           |-> l.student_id,
      assignment_id        |-> IF l.matched THEN l.match.assignment ELSE None,
      file_name            |-> f,
      source               |-> SourceOf(i),
      file_id              |-> f,          \* drive_file_id / dropbox_path
      file_hash            |-> l.file_hash,
      ocr_text             |-> l.ocr_text,
      detected_title       |-> l.parsed.title,
      detected_date        |-> l.parsed.date,
      detected_score       |-> l.parsed.earned,
      detected_max_score   |-> l.parsed.possible,
      match_confidence     |-> IF l.matched THEN l.match.confidence ELSE 0,
      match_method         |-> IF l.matched THEN l.match.method ELSE "none",
      status               |-> l.status,
      detection_confidence |-> l.detection.confidence,
      detection_method     |-> l.detection.method ]

\* session.add(doc); session.commit(): the table after the insert
Insert(table, row) == Append(table, row)

\* bug: the file is moved without its row having been saved
SaveToDatabaseSkipped(i) ==
    /\ pc[i] = "save"
    /\ pc' = [pc EXCEPT ![i] = "move"]
    /\ UNCHANGED <<call, ret, students, detector, content, location, docs, runs, batch, cur, loc, calls, results>>

\* _save_to_database_with_detection
SaveToDatabase(i) ==
    /\ pc[i] = "save"
    /\ LET stages == Append(calls[i], "save") IN
       \/ /\ docs' = Insert(docs, NewRow(i, cur[i], loc[i]))
          /\ loc' = [loc EXCEPT ![i].document_id = Len(docs')]
          /\ calls' = [calls EXCEPT ![i] = stages]
          /\ pc' = [pc EXCEPT ![i] = "move"]
          /\ UNCHANGED results
       \/ \* the commit raises
          /\ Raise(i, "commit error", stages)
          /\ UNCHANGED <<docs, loc, calls>>
    /\ UNCHANGED <<call, ret, students, detector, content, location, runs, batch, cur>>

\* if move_files: move the file (a failure is logged), then return the result;
\* move_files and confidence_threshold are parameters of the call, drawn where
\* the code first reads them
MoveFile(i) ==
    /\ pc[i] = "move"
    /\ LET done(stages) ==
             Return(i, Result(cur[i], loc[i].status, loc[i].document_id, TRUE,
                              Null, loc[i].ocr_result, stages))
       IN  \E move_files \in BOOLEAN :
           IF move_files
           THEN \/ /\ location' = [location EXCEPT ![cur[i]] = loc[i].dest_folder]
                   /\ done(Append(calls[i], "move"))
                \/ /\ UNCHANGED location
                   /\ done(Append(calls[i], "move failed"))
           ELSE /\ UNCHANGED location
                /\ done(calls[i])
    /\ UNCHANGED <<call, ret, students, detector, content, docs, runs, batch, cur, loc, calls>>

(* ---- manual assignment: cli/assign_document.py, web/assign.py ----------- *)
\* bug: the assignment re-derives the parsed score from the matched assignment
AssignedResetsParsed(row, student, assignment_found, m) ==
    [row EXCEPT !.student_id = student,
                !.assignment_id = IF assignment_found THEN m.assignment ELSE @,
                !.detected_score = NoNum,
                !.detected_max_score = NoNum]

\* bug: an assignment without a matched assignment puts the row back to pending
AssignedDemotes(row, student, assignment_found, m) ==
    IF assignment_found
    THEN [row EXCEPT !.student_id = student,
                     !.assignment_id = m.assignment,
                     !.match_confidence = m.confidence,
                     !.match_method = m.method,
                     !.status = "processed"]
    ELSE [row EXCEPT !.student_id = student, !.status = "pending"]

\* the row after the assignment: student set, match fields set on a match
Assigned(row, student, assignment_found, m) ==
    IF assignment_found
    THEN [row EXCEPT !.student_id = student,
                     !.assignment_id = m.assignment,
                     !.match_confidence = m.confidence,
                     !.match_method = m.method]
    ELSE [row EXCEPT !.student_id = student]

\* cmd_assign reaches its commit: the document and the student exist, and the
\* document is unassigned or --force is given
CmdAssignProceeds(d, force) ==
    /\ d \in 1..Len(docs)
    /\ docs[d].student_id = None \/ force

\* cmd_assign(doc_id, --student, --force, --match)
CmdAssign(d, student, force, match) ==
    /\ CmdAssignProceeds(d, force)
    /\ UNCHANGED <<call, ret, students, detector, content, location, pc, runs, batch, cur, loc, calls,
                   results>>
    /\ \E m \in MatchOutcomes(student) :
          docs' = [docs EXCEPT ![d] =
                     Assigned(@, student, match /\ m.assignment # None, m)]

\* assign_document reaches its commit: valid token, existing and unassigned document
WebAssignProceeds(d) ==
    /\ d \in 1..Len(docs)
    /\ docs[d].student_id = None

\* assign_document(token, student_id); matcher_ok is FALSE when matching raises
WebAssign(d, student, matcher_ok) ==
    /\ WebAssignProceeds(d)
    /\ UNCHANGED <<call, ret, students, detector, content, pc, runs, batch, cur, loc, calls, results>>
    /\ \E m \in MatchOutcomes(student) :
          docs' = [docs EXCEPT ![d] =
                     Assigned(@, student, matcher_ok /\ m.assignment # None, m)]
    /\ \/ \* the Drive file is moved from Pending to Processed
          /\ docs[d].source = "google_drive"
          /\ location' = [location EXCEPT ![docs[d].file_id] = "Processed"]
       \/ \* not a Drive file, no shared folder configured, or the move fails
          UNCHANGED location

(* ---- specification ------------------------------------------------------ *)
\* cmd_daemon, one iteration of "while True": look for new files and, if there
\* are any, process the shared folder with the one long-lived processor
DaemonPoll(i) ==
    /\ pc[i] = "idle"
    /\ runs[i] < MaxPolls
    /\ runs' = [runs EXCEPT ![i] = @ + 1]
    /\ IF GetNewFiles(i) # <<>>
       THEN /\ batch' = [batch EXCEPT ![i] = GetNewFiles(i)]
            /\ results' = [results EXCEPT ![i] = <<>>]
            /\ pc' = [pc EXCEPT ![i] = "next"]
       ELSE UNCHANGED <<batch, results, pc>>
    /\ UNCHANGED <<call, ret, students, detector, content, location, docs, cur, loc, calls>>

\* a student is added to the directory while the daemon sleeps between two runs
AddStudent(s) ==
    /\ s \notin students
    /\ pc["drive"] = "idle"
    /\ students' = students \cup {s}
    /\ UNCHANGED <<call, ret, detector, content, location, docs, pc, runs, batch, cur, loc,
                   calls, results>>

\* the steps of a run after its start
FileSteps(i) ==
    \/ NextFile(i)
    \/ Download(i)
    \/ DuplicateCheck(i)
    \/ Ocr(i)
    \/ ParseText(i)
    \/ DetectStudent(i)
    \/ MatchAssignment(i)
    \/ SaveToDatabase(i)
    \/ MoveFile(i)

PipelineStep(i) ==
    \/ StartRun(i)
    \/ FileSteps(i)

\* a manual assignment of document d to the student commits in this step
ManualAssign(d, student) ==
    \/ \E force \in BOOLEAN, match \in BOOLEAN : CmdAssign(d, student, force, match)
    \/ \E matcher_ok \in BOOLEAN : WebAssign(d, student, matcher_ok)

ManualStep == \E d \in 1..Len(docs), student \in Students : ManualAssign(d, student)

\* the Drive and the Dropbox pipeline instance run concurrently on one table
Next == \E i \in Instances : PipelineStep(i)

Spec == Init /\ [][Next]_vars

\* one pipeline instance polls while documents are assigned by hand
NextAssign ==
    \/ PipelineStep("drive")
    \/ ManualStep

SpecAssign == Init /\ [][NextAssign]_vars

\* the Drive daemon polls with one processor while the directory grows
NextDaemon ==
    \/ DaemonPoll("drive")
    \/ FileSteps("drive")
    \/ \E s \in Students : AddStudent(s)

SpecDaemon == InitDaemon /\ [][NextDaemon]_vars

(* ---- direct calls of the detector and the matcher ----------------------- *)
\* nothing uploaded, nothing running: only the called function acts
InitCalls ==
    /\ location = [f \in Files |-> "absent"]
    /\ content = [f \in Files |-> "A"]
    /\ docs = <<>>
    /\ pc = [i \in Instances |-> "idle"]
    /\ runs = [i \in Instances |-> 0]
    /\ batch = [i \in Instances |-> <<>>]
    /\ cur = [i \in Instances |-> <<i, 0>>]
    /\ loc = [i \in Instances |-> NoLocals]
    /\ calls = [i \in Instances |-> <<>>]
    /\ results = [i \in Instances |-> <<>>]
    /\ detector = [i \in Instances |-> NoCache]
    /\ students = Students
    /\ call = [fn |-> "none"]
    /\ ret = [fn |-> "none"]

\* DocumentParser._calculate_score_confidence(score, text)
CalculateScoreConfidence(score) ==
    Min(50 + (IF score.possible > 0 THEN 20 ELSE 0)
           + (IF score.score_context THEN 20 ELSE 0)
           + (IF score.letter_grade THEN 10 ELSE 0), 100)

\* DocumentParser._calculate_date_confidence(date, text)
CalculateDateConfidence(date) ==
    Min(50 + (IF date.near_keyword THEN 15 ELSE 0)
           + (IF date.days_diff < 30 THEN 20
              ELSE IF date.days_diff < 90 THEN 10 ELSE 0), 100)

\* DocumentParser._calculate_title_confidence(title, text)
CalculateTitleConfidence(title) ==
    Min(40 + (IF title.keyword THEN 15 ELSE 0)
           + (IF title.at_start THEN 20 ELSE 0)
           + (IF 10 < title.length /\ title.length < 50 THEN 10 ELSE 0), 100)

\* the confidences of DocumentParser.parse(text): all_scores, all_dates and
\* all_titles are what the extractors found, the first of each being kept
ParseConfidences(all_scores, all_dates, all_titles) ==
    [ score_confidence |-> IF all_scores # <<>>
                           THEN CalculateScoreConfidence(all_scores[1]) ELSE 0,
      date_confidence  |-> IF all_dates # <<>>
                           THEN CalculateDateConfidence(all_dates[1]) ELSE 0,
      title_confidence |-> IF all_titles # <<>>
                           THEN CalculateTitleConfidence(all_titles[1]) ELSE 0 ]

\* what the extractors can find in a text
ExtractedScores ==
    {<<>>} \cup { <<sc>> : sc \in [possible : {0, 100}, score_context : BOOLEAN,
                                   letter_grade : BOOLEAN] }
ExtractedDates ==
    {<<>>} \cup { <<d>> : d \in [near_keyword : BOOLEAN, days_diff : {0, 30, 90}] }
ExtractedTitles ==
    {<<>>} \cup { <<t>> : t \in [keyword : BOOLEAN, at_start : BOOLEAN,
                                 length : {10, 11, 50}] }

\* bug: the month/day test is missing
LooksLikeDateYearOnly(num1, num2, date_context) ==
    \/ 1 <= num1 /\ num1 <= 31 /\ 2020 <= num2 /\ num2 <= 2030
    \/ date_context /\ ((1 <= num1 /\ num1 <= 31) \/ (1 <= num2 /\ num2 <= 31))

\* GradeParser._looks_like_date(num1, num2, raw_text); date_context is whether
\* the matched text contains "date", "due" or four digits in a row
LooksLikeDate(num1, num2, date_context) ==
    \/ 1 <= num1 /\ num1 <= 12 /\ 1 <= num2 /\ num2 <= 31
    \/ 1 <= num1 /\ num1 <= 31 /\ 2020 <= num2 /\ num2 <= 2030
    \/ date_context /\ ((1 <= num1 /\ num1 <= 31) \/ (1 <= num2 /\ num2 <= 31))

\* ParsedScore(earned, possible, percentage, letter_grade); the percentage is
\* kept in tenths, rounded down
ParsedScore(earned, possible, percentage, letter_grade) ==
    [earned |-> earned, possible |-> possible, percentage |-> percentage,
     letter_grade |-> letter_grade]

\* the scores one match of a score pattern adds: groups[1] is NoNum when the
\* pattern has no second group or it did not take part in the match
ScoresOfMatch(m) ==
    IF m.possible # NoNum
    THEN IF LooksLikeDate(m.earned, m.possible, m.date_context) THEN <<>>
         ELSE IF m.possible > 0
         THEN IF m.earned * 100 > 200 * m.possible \/ m.possible > 1000 THEN <<>>
              ELSE <<ParsedScore(m.earned, m.possible,
                                 (m.earned * 1000) \div m.possible, Null)>>
         ELSE <<>>
    ELSE IF 0 <= m.earned /\ m.earned <= 100
         THEN <<ParsedScore(m.earned, 100, m.earned * 10, Null)>>
         ELSE <<>>

\* the loop over the matches of the score patterns
RECURSIVE ScoresOfMatches(_)
ScoresOfMatches(matches) ==
    IF matches = <<>> THEN <<>>
    ELSE ScoresOfMatch(Head(matches)) \o ScoresOfMatches(Tail(matches))

\* a letter grade match: the first score without a letter takes it, or a
\* letter-only score is added (percentage of "A": 94)
WithLetter(scores, letter) ==
    IF \E k \in 1..Len(scores) : scores[k].letter_grade = Null
    THEN LET k == CHOOSE j \in 1..Len(scores) :
                    /\ scores[j].letter_grade = Null
                    /\ \A i \in 1..(j - 1) : scores[i].letter_grade # Null
         IN  [scores EXCEPT ![k].letter_grade = letter]
    ELSE Append(scores, ParsedScore(0, 0, 940, letter))

\* the sort key (s.possible > 0, s.earned > 0) as a number
ScoreKey(sc) == (IF sc.possible > 0 THEN 2 ELSE 0) + (IF sc.earned > 0 THEN 1 ELSE 0)

\* scores.sort(key=..., reverse=True), a stable sort
RECURSIVE SortScores(_)
SortScores(scores) ==
    IF scores = <<>> THEN <<>>
    ELSE LET rest == SortScores(SubSeq(scores, 1, Len(scores) - 1))
             sc == scores[Len(scores)]
             k == Cardinality({ j \in 1..Len(rest) : ScoreKey(rest[j]) >= ScoreKey(sc) })
         IN  SubSeq(rest, 1, k) \o <<sc>> \o SubSeq(rest, k + 1, Len(rest))

\* GradeParser._extract_scores(text): matches are the matches of the score
\* patterns in order, letters the matches of the letter grade patterns
ExtractScores(matches, letters) ==
    LET scores == ScoresOfMatches(matches)
    IN  SortScores(IF letters = <<>> THEN scores ELSE WithLetter(scores, letters[1]))

\* the numbers and the pattern matches of the texts that are tried
Numbers == {0, 5, 12, 13, 31, 32, 64, 1000, 1001, 2020, 2031}
PatternMatches ==
    [earned : Numbers, possible : Numbers \cup {NoNum}, date_context : BOOLEAN]

\* the detections detect() can return and the matches find_match can return
DetectResults ==
    { Detection(d.student, d.confidence, d.method) :
        d \in { Cascade(st, 1, <<>>, <<>>) :
                  st \in QrReturns \X CoverReturns \X NameReturns
                            \X CourseReturns \X AssignmentReturns } }
MatchResults ==
    { Match(m.assignment, m.confidence, m.method) :
        m \in { FindMatchOf(pt[1], pt[2]) : pt \in ParsedDocs \X AssignmentTables } }

\* the variables of the pipeline
pipeline == <<content, location, docs, pc, runs, batch, cur, loc, calls,
              results, students, detector>>

\* detector.detect(parsed, qr_data): the stages return the drawn values
CallDetect ==
    /\ call.fn = "none"
    /\ \E qr \in QrReturns, cover \in CoverReturns, name \in NameReturns,
          course \in CourseReturns, asg \in AssignmentReturns :
          /\ call' = [fn |-> "detect", stages |-> <<qr, cover, name, course, asg>>]
          /\ ret' = Cascade(<<qr, cover, name, course, asg>>, 1, <<>>, <<>>)
    /\ UNCHANGED pipeline

\* matcher.find_match(parsed, student_id)
CallFindMatch ==
    /\ call.fn = "none"
    /\ \E parsed \in ParsedDocs, assignments \in AssignmentTables :
          /\ call' = [fn |-> "find_match", parsed |-> parsed,
                      assignments |-> assignments]
          /\ ret' = FindMatchOf(parsed, assignments)
    /\ UNCHANGED pipeline

\* detector._detect_from_cover_sheet(text)
CallCoverSheet ==
    /\ call.fn = "none"
    /\ \E found \in [Students -> [head : Occurrences, tail : Occurrences]] :
          /\ call' = [fn |-> "cover_sheet", found |-> found]
          /\ ret' = DetectFromCoverSheet(found)
    /\ UNCHANGED pipeline

\* parser.parse(text)
CallParse ==
    /\ call.fn = "none"
    /\ \E all_scores \in ExtractedScores, all_dates \in ExtractedDates,
          all_titles \in ExtractedTitles :
          /\ call' = [fn |-> "parse", all_scores |-> all_scores,
                      all_dates |-> all_dates, all_titles |-> all_titles]
          /\ ret' = ParseConfidences(all_scores, all_dates, all_titles)
    /\ UNCHANGED pipeline

\* detector._detect_from_name(name)
CallDetectFromName ==
    /\ call.fn = "none"
    /\ \E rel \in [Students -> NameRelations] :
          /\ call' = [fn |-> "detect_from_name", rel |-> rel]
          /\ ret' = DetectFromName(rel)
    /\ UNCHANGED pipeline

\* detector._detect_from_assignment(title, date)
CallDetectFromAssignment ==
    /\ call.fn = "none"
    /\ \E best_similarity \in Similarities, best_match \in Students \cup {None} :
          /\ best_similarity = 0 <=> best_match = None
          /\ call' = [fn |-> "detect_from_assignment",
                      best_similarity |-> best_similarity]
          /\ ret' = DetectFromAssignment(best_similarity, best_match)
    /\ UNCHANGED pipeline

\* the limits find_matches is called with (5 is the default)
Limits == {1, 5}

\* matcher.find_matches(parsed, student_id, limit=limit)
CallFindMatches ==
    /\ call.fn = "none"
    /\ \E parsed \in ParsedDocs, assignments \in AssignmentTables, limit \in Limits :
          /\ call' = [fn |-> "find_matches", parsed |-> parsed,
                      assignments |-> assignments, limit |-> limit]
          /\ ret' = [matches |-> FindMatchesOf(parsed, assignments, limit)]
    /\ UNCHANGED pipeline

\* _save_to_database_with_detection(..., detection, match): match is None when
\* no student was detected
CallSave ==
    /\ call.fn = "none"
    /\ \E detection \in DetectResults, ms \in {<<>>} \cup { <<m>> : m \in MatchResults } :
          LET l == [NoLocals EXCEPT
                       !.detection = detection,
                       !.status = StatusOf(detection, 70),
                       !.student_id = detection.student,
                       !.matched = (ms # <<>>),
                       !.match = IF ms # <<>> THEN ms[1] ELSE Match(None, 0, "none")]
          IN  /\ HasStudent(detection.student) <=> ms # <<>>
              /\ call' = [fn |-> "save", detection |-> detection, match |-> ms]
              /\ docs' = Insert(docs, NewRow("drive", <<"drive", 1>>, l))
              /\ ret' = [document_id |-> Len(docs')]
    /\ UNCHANGED <<content, location, pc, runs, batch, cur, loc, calls,
                   results, students, detector>>

\* the assignments _score_match is tried on: name and course ratios in percent,
\* due_at from 9 days before to 1 hour after the parsed date 240
ScoredAttrs ==
    [id : {1}, title_sim : {0, 51, 70, 71, 81, 100},
     due_at : { 240 - 24 * k : k \in 0..9 } \cup {217, 241},
     course_sim : {0, 70, 71, 100}]

\* matcher._score_match(parsed, assignment)
CallScoreMatch ==
    /\ call.fn = "none"
    /\ \E parsed \in ParsedDocs, a \in ScoredAttrs :
          /\ call' = [fn |-> "score_match", parsed |-> parsed, assignment |-> a]
          /\ ret' = ScoreMatch(parsed, a)
    /\ UNCHANGED pipeline

\* parser._extract_scores(text) on a text with up to two pattern matches
CallExtractScores ==
    /\ call.fn = "none"
    /\ \E n \in 0..2 : \E matches \in [1..n -> PatternMatches],
                           letters \in {<<>>, <<"A">>} :
          /\ call' = [fn |-> "extract_scores", matches |-> matches,
                      letters |-> letters]
          /\ ret' = [scores |-> ExtractScores(matches, letters)]
    /\ UNCHANGED pipeline

NextCalls ==
    \/ CallDetect
    \/ CallExtractScores
    \/ CallScoreMatch
    \/ CallCoverSheet
    \/ CallParse
    \/ CallDetectFromName
    \/ CallDetectFromAssignment
    \/ CallFindMatches
    \/ CallSave
    \/ CallFindMatch

SpecCalls == InitCalls /\ [][NextCalls]_vars

(* ---- OCR client: scanner/ocr.py ----------------------------------------- *)
\* Retry configuration
MAX_RETRIES == 3
INITIAL_RETRY_DELAY == 1
MAX_RETRY_DELAY == 32

\* mime types are <<type, subtype>>; SUPPORTED_IMAGE_FORMATS.values()
ValidMimes == { <<"image", "png">>, <<"image", "jpeg">>, <<"image", "webp">>,
                <<"image", "gif">> }

\* SUPPORTED_IMAGE_FORMATS.keys() and SUPPORTED_PDF_FORMATS
ImageFormats == {".png", ".jpg", ".jpeg", ".webp", ".gif"}
PdfFormats == {".pdf"}

\* the mime types and file extensions that are tried
MimeTypes == { <<"image", "png">>, <<"image", "jpeg">>, <<"application", "pdf">>,
               <<"image", "tiff">>, <<"text", "plain">> }
Extensions == {".png", ".pdf", ".txt"}

\* the exceptions a provider call raises
ProviderErrors == {"timeout", "rate limit"}

\* the provider calls of _process_image / process_image_bytes and of _process_pdf
ProviderCallsOf(file_type) ==
    IF file_type = "image" THEN <<"ocr.process">>
    ELSE <<"files.upload", "files.get_signed_url", "ocr.process">>

\* OCRResult(success=..., error=...) and whether the operation raised instead
OCRResult(success, error) == [success |-> success, error |-> error, raised |-> FALSE]

\* the operation returns a failure result before its try block
Rejected(fn, input, error) ==
    << [fn |-> fn, input |-> input, pc |-> "done", steps |-> <<>>, attempt |-> 0,
        delay |-> INITIAL_RETRY_DELAY, waits |-> <<>>, provider_calls |-> 0,
        last_error |-> Null],
       OCRResult(FALSE, error) >>

\* the operation enters its try block: the decorated provider calls are ahead
Entered(fn, input, file_type) ==
    << [fn |-> fn, input |-> input, pc |-> "attempt",
        steps |-> ProviderCallsOf(file_type), attempt |-> 0,
        delay |-> INITIAL_RETRY_DELAY, waits |-> <<>>, provider_calls |-> 0,
        last_error |-> Null],
       [fn |-> "none"] >>

\* process_image_bytes(image_bytes, filename, mime_type) up to the provider call
ProcessImageBytes(fn, input, mime_type) ==
    IF mime_type \notin ValidMimes
    THEN Rejected(fn, input, "Unsupported MIME type")
    ELSE Entered(fn, input, "image")

\* process_file(file_path) up to the provider call
ProcessFile(fn, input, exists, ext) ==
    IF ~exists THEN Rejected(fn, input, "File not found")
    ELSE IF ext \in ImageFormats THEN Entered(fn, input, "image")
    ELSE IF ext \in PdfFormats THEN Entered(fn, input, "pdf")
    ELSE Rejected(fn, input, "Unsupported format")

\* the OCR step of process_file_with_detection: images by bytes, everything
\* else through a temporary file with the suffix .pdf
Extract(mime_type) ==
    IF mime_type[1] = "image"
    THEN ProcessImageBytes("extract", mime_type, mime_type)
    ELSE ProcessFile("extract", mime_type, TRUE, ".pdf")

\* bug: one more attempt before giving up
LastAttemptLate(attempt) == attempt = MAX_RETRIES

\* "if attempt == MAX_RETRIES - 1": the wrapper re-raises
LastAttempt(attempt) == attempt = MAX_RETRIES - 1

\* delay = min(delay * 2, MAX_RETRY_DELAY)
NextDelay(delay) == Min(delay * 2, MAX_RETRY_DELAY)

\* ocr.process_image_bytes(image_bytes, filename, mime_type)
CallProcessImageBytes ==
    /\ call.fn = "none"
    /\ \E mime_type \in MimeTypes :
          LET r == ProcessImageBytes("process_image_bytes", mime_type, mime_type)
          IN  call' = r[1] /\ ret' = r[2]
    /\ UNCHANGED pipeline

\* ocr.process_file(file_path)
CallProcessFile ==
    /\ call.fn = "none"
    /\ \E exists \in BOOLEAN, ext \in Extensions :
          LET r == ProcessFile("process_file", <<exists, ext>>, exists, ext)
          IN  call' = r[1] /\ ret' = r[2]
    /\ UNCHANGED pipeline

\* the OCR step of a processor on a file of the given mime type
CallExtract ==
    /\ call.fn = "none"
    /\ \E mime_type \in MimeTypes :
          LET r == Extract(mime_type)
          IN  call' = r[1] /\ ret' = r[2]
    /\ UNCHANGED pipeline

\* one pass of the loop of retry_with_backoff around the current provider call:
\* the call returns, or raises and the wrapper re-raises or prepares to sleep
ProviderCall ==
    /\ call.fn \in {"process_image_bytes", "process_file", "extract"}
    /\ call.pc = "attempt"
    /\ \/ \* the call returns: the next decorated call, or the success result
          IF Len(call.steps) > 1
          THEN /\ call' = [call EXCEPT !.steps = Tail(@), !.attempt = 0,
                                       !.delay = INITIAL_RETRY_DELAY,
                                       !.waits = <<>>,
                                       !.provider_calls = @ + 1]
               /\ UNCHANGED ret
          ELSE /\ call' = [call EXCEPT !.pc = "done", !.provider_calls = @ + 1]
               /\ ret' = OCRResult(TRUE, Null)
       \/ \* the call raises e
          \E e \in ProviderErrors :
             IF LastAttempt(call.attempt)
             THEN \* raise, caught by "except Exception as e" of the operation
                  /\ call' = [call EXCEPT !.pc = "done", !.provider_calls = @ + 1,
                                          !.last_error = e]
                  /\ ret' = OCRResult(FALSE, e)
             ELSE /\ call' = [call EXCEPT !.pc = "sleep", !.provider_calls = @ + 1,
                                          !.last_error = e,
                                          !.delay = NextDelay(@)]
                  /\ UNCHANGED ret
    /\ UNCHANGED pipeline

\* time.sleep(delay), then the next attempt
Sleep ==
    /\ call.fn \in {"process_image_bytes", "process_file", "extract"}
    /\ call.pc = "sleep"
    /\ call' = [call EXCEPT !.pc = "attempt", !.attempt = @ + 1,
                            !.waits = Append(@, call.delay)]
    /\ UNCHANGED <<ret, pipeline>>

NextOcr ==
    \/ CallProcessImageBytes
    \/ CallProcessFile
    \/ CallExtract
    \/ ProviderCall
    \/ Sleep

SpecOcr == InitCalls /\ [][NextOcr]_vars

\* a provider call returns or raises, and time.sleep returns
SpecOcrFair == SpecOcr /\ WF_vars(ProviderCall) /\ WF_vars(Sleep)

(* ---- properties --------------------------------------------------------- *)
Rows == 1..Len(docs)

\* the results returned so far in the current runs
Returned == UNION { { results[i][k] : k \in 1..Len(results[i]) } : i \in Instances }

\* the stage is among the executed stages
Executed(stages, stage) == \E k \in 1..Len(stages) : stages[k] = stage

\* C1: no two persisted ScannedDocument rows carry the same content digest,
\* whatever the interleaving of the pipeline instances.
C1_DigestUnique ==
    \A d1, d2 \in Rows : d1 # d2 => docs[d1].file_hash # docs[d2].file_hash

\* C2: an ingestion that writes content whose digest an older row already
\* carries (the loser of a race) ends 'duplicate' referencing that row, never
\* with a row of its own and never 'failed'.
C2_RaceLoserIsDuplicate ==
    \A r \in Returned :
        \A w \in Rows :
            ( /\ Executed(r.calls, "save")
              /\ r.document_id # None
              /\ docs[w].file_hash = Sha256(content[r.file])
              /\ w < r.document_id )
            => /\ r.status = "duplicate"
               /\ r.document_id = w

\* the fields of a row that the manual assignment may write
AssignFields == {"student_id", "assignment_id", "match_confidence", "match_method"}

\* every column of a row
RowFields ==
    { "student_id", "assignment_id", "file_name", "source", "file_id", "file_hash",
      "ocr_text", "detected_title", "detected_date", "detected_score",
      "detected_max_score", "match_confidence", "match_method", "status",
      "detection_confidence", "detection_method" }

\* the row was given its student by a manual assignment, not by detection
ManuallyAssigned(d) ==
    /\ docs[d].detection_method = "ambiguous"
    /\ docs[d].student_id # None

\* C3: sequential idempotence: ingesting the same bytes twice in sequence, the
\* first reaching persistence, leaves exactly one row with that digest, in
\* status processed or pending, and the second outcome is 'duplicate' with the
\* first row's id.
C3_SequentialIdempotent ==
    /\ \A d1, d2 \in Rows : d1 # d2 => docs[d1].file_hash # docs[d2].file_hash
    /\ \A d \in Rows : docs[d].status \in {"processed", "pending"}
    /\ \A i \in Instances : \A k \in 1..Len(results[i]) : \A j \in 1..(k - 1) :
          LET first == results[i][j]
              second == results[i][k]
          IN  ( /\ first.status \in {"processed", "pending"}
                /\ content[first.file] = content[second.file]
                /\ Executed(second.calls, "dedup") )
              => /\ second.status = "duplicate"
                 /\ second.document_id = first.document_id
                 /\ docs[first.document_id].file_hash = Sha256(content[second.file])

C3_Witness ==
    \E i \in Instances : \E k \in 1..Len(results[i]) : \E j \in 1..(k - 1) :
        /\ results[i][j].status \in {"processed", "pending"}
        /\ results[i][k].status = "duplicate"
        /\ results[i][k].document_id = results[i][j].document_id

\* C4: duplicate short-circuit: when the digest of the downloaded bytes matches
\* an existing row, the file's processing ends there: no OCR, parse, detection,
\* matching or save, no new row, and a 'duplicate' result with that row's id.
C4_DuplicateShortCircuit ==
    [][ \A i \in Instances :
          ( /\ pc[i] = "dedup"
            /\ pc'[i] # "dedup"
            /\ \E d \in Rows : docs[d].file_hash = Sha256(content[cur[i]]) )
          => /\ pc'[i] = "next"
             /\ docs' = docs
             /\ Len(results'[i]) = Len(results[i]) + 1
             /\ LET r == results'[i][Len(results'[i])]
                IN  /\ r.file = cur[i]
                    /\ r.status = "duplicate"
                    /\ r.document_id \in Rows
                    /\ docs[r.document_id].file_hash = Sha256(content[cur[i]])
                    /\ r.calls = <<"download", "dedup">>
      ]_vars

C4_Witness ==
    \E r \in Returned :
        /\ r.status = "duplicate"
        /\ r.document_id \in Rows
        /\ docs[r.document_id].file_id # r.file

\* C5: status decision: a file that passed the duplicate check and OCR is
\* persisted as 'processed' exactly when detection is confident and its
\* confidence is at or above the threshold, and as 'pending' otherwise.
C5_StatusDecision ==
    \A i \in Instances :
        LET l == loc[i]
            confident == /\ l.detection.student # None
                         /\ l.detection.confidence >= 70
                         /\ l.detection.confidence >= l.confidence_threshold
        IN  /\ pc[i] \in {"match", "save", "move"} =>
                    l.status = IF confident THEN "processed" ELSE "pending"
            /\ pc[i] = "move" =>
                    /\ l.document_id \in Rows
                    /\ docs[l.document_id].file_id = cur[i]
                    /\ docs[l.document_id].status = l.status

C5_Witness ==
    \E i \in Instances :
        /\ pc[i] = "move"
        /\ loc[i].status = "processed"
        /\ loc[i].detection.confidence = loc[i].confidence_threshold

C7_OcrFailureStops ==
    /\ \A i \in Instances :
          loc[i].ocr_result = "failed" =>
              pc[i] \notin {"parse", "detect", "match", "save", "move"}
    /\ \A r \in Returned :
          r.ocr_result = "failed" =>
              /\ r.status = "failed"
              /\ r.error = "ocr error"
              /\ r.document_id = None
              /\ r.calls = <<"download", "dedup", "ocr">>
              /\ location[r.file] = "inbox"
              /\ \A d \in Rows : docs[d].file_id # r.file

C7_Witness == \E r \in Returned : r.ocr_result = "failed" /\ r.status = "failed"

\* C8: after a manual assignment (cmd_assign, assign_document) commits on a
\* pending row, the row has the supplied student and status 'processed'.
C8_AssignCompletesPending ==
    [][ \A d \in Rows : \A student \in Students :
          (docs[d].status = "pending" /\ ManualAssign(d, student))
          => /\ docs'[d].student_id = student
             /\ docs'[d].status = "processed"
      ]_vars

\* C9: frame of the manual assignment: it writes only the student reference and
\* the match fields of the one row; digest, file identity, OCR text, parsed
\* fields and every other row stay as they were.
C9_AssignFrame ==
    [][ \A d \in Rows : \A student \in Students :
          ManualAssign(d, student)
          => /\ Len(docs') = Len(docs)
             /\ \A e \in Rows \ {d} : docs'[e] = docs[e]
             /\ \A fld \in RowFields \ AssignFields : docs'[d][fld] = docs[d][fld]
             /\ docs'[d].student_id = student
      ]_vars

C9_Witness == \E d \in Rows : ManuallyAssigned(d) /\ docs[d].detected_score # NoNum

\* C10: lifecycle is one-way: no row is ever deleted, the pipeline never changes
\* the status of a persisted row, and the only status change of a persisted row
\* is pending -> processed made by the manual assignment.
C10_LifecycleOneWay ==
    [][ /\ Len(docs') >= Len(docs)
        /\ \A d \in Rows :
              /\ docs'[d].file_id = docs[d].file_id
              /\ docs'[d].file_hash = docs[d].file_hash
              /\ docs'[d].status # docs[d].status =>
                    /\ docs[d].status = "pending"
                    /\ docs'[d].status = "processed"
                    /\ \E student \in Students : ManualAssign(d, student)
      ]_vars

C10_Witness ==
    /\ Len(docs) = 2
    /\ \E d \in Rows : ManuallyAssigned(d) /\ docs[d].status = "pending"

\* stages of process_file_with_detection, in the order of the code
StageOrder ==
    <<"download", "dedup", "ocr", "parse", "detect", "match", "save", "move">>

\* position of a stage in that order (a failed move is still the move stage)
Rank(stage) ==
    IF stage = "move failed" THEN Len(StageOrder)
    ELSE CHOOSE k \in 1..Len(StageOrder) : StageOrder[k] = stage

\* the instance is inside process_file_with_detection
InFile(i) == pc[i] \notin {"idle", "next"}

\* files of the run: those with a result, the one in work, those still to do
Work(i) ==
    [k \in 1..Len(results[i]) |-> results[i][k].file]
        \o (IF InFile(i) THEN <<cur[i]>> ELSE <<>>)
        \o batch[i]

InOrder(stages) ==
    /\ stages # <<>> => stages[1] = "download"
    /\ \A k \in 1..(Len(stages) - 1) :
          \/ Rank(stages[k + 1]) = Rank(stages[k]) + 1
          \/ stages[k] = "detect" /\ stages[k + 1] = "save"

\* C12: stage ordering: the stages of one file run in the order fetch, digest
\* and duplicate check, OCR, parse, detect, match, persist, relocate; the
\* source file is relocated only after its row has been persisted.
C12_StageOrder ==
    /\ \A i \in Instances : InOrder(calls[i])
    /\ \A r \in Returned : InOrder(r.calls)
    /\ \A i \in Instances :
          pc[i] = "move" => \E d \in Rows : docs[d].file_id = cur[i]
    /\ \A f \in Files :
          location[f] \notin {"inbox", "absent"} => \E d \in Rows : docs[d].file_id = f

C12_Witness ==
    \E r \in Returned :
        /\ r.calls = StageOrder
        /\ location[r.file] \notin {"inbox", "absent"}

\* C13: relocation target: with file moving enabled a 'processed' file is moved
\* to the folder of the detected student and a 'pending' file to the shared
\* 'Pending' folder; no file lies in a student's folder while its row is pending.
C13_RelocationTarget ==
    /\ \A d \in Rows :
          LET f == docs[d].file_id IN
          /\ docs[d].status = "processed" =>
                location[f] \in {"inbox", FirstName(docs[d].student_id)}
          /\ docs[d].status = "pending" => location[f] \in {"inbox", "Pending"}
    /\ \A r \in Returned :
          Executed(r.calls, "move") =>
              location[r.file] = IF r.status = "processed"
                                 THEN FirstName(docs[r.document_id].student_id)
                                 ELSE "Pending"

C13_Witness ==
    /\ \E r \in Returned :
          /\ r.status = "pending"
          /\ docs[r.document_id].student_id # None
          /\ location[r.file] = "Pending"
    /\ \E r \in Returned :
          /\ r.status = "processed"
          /\ location[r.file] = FirstName(docs[r.document_id].student_id)

\* C14: directory cache freshness: the student directory used by detection is
\* rebuilt for every run, so detection in a run works on the directory as it
\* is during that run, including a student added since the previous run.
C14_DirectoryFresh ==
    \A i \in Instances :
        pc[i] \in {"match", "save", "move"} => detector[i].students = students

\* stage k of the call resolved a student with confidence at least 70
Resolves(k) ==
    /\ call.stages[k].ran
    /\ call.stages[k].student # None
    /\ call.stages[k].confidence >= 70

\* the stages of the call that ran, among the first n
RanUpTo(n) == SelectSeq(SubSeq(StageNames, 1, n), LAMBDA m :
                 \E k \in 1..n : StageNames[k] = m /\ call.stages[k].ran)

\* C15: detection cascade: detect evaluates QR, cover sheet, name, course and
\* assignment title in this order and returns the result of the first stage
\* that resolves a student with confidence >= 70; no later stage is consulted;
\* a result that carries a student has confidence >= 70.
C15_Cascade ==
    call.fn = "detect" =>
        /\ ret.student # None => ret.confidence >= 70
        /\ \A k \in 1..Len(StageNames) :
              (Resolves(k) /\ \A j \in 1..(k - 1) : ~Resolves(j)) =>
                  /\ ret.student = call.stages[k].student
                  /\ ret.confidence = call.stages[k].confidence
                  /\ ret.method = StageNames[k]
                  /\ ret.consulted = RanUpTo(k)
        /\ (\A k \in 1..Len(StageNames) : ~Resolves(k)) =>
              /\ ret.student = None
              /\ ret.consulted = RanUpTo(Len(StageNames))

C15_Witness ==
    /\ call.fn = "detect"
    /\ ret.method = "course_match"
    /\ call.stages[2].ran
    /\ call.stages[2].student = None
    /\ call.stages[3].ran
    /\ call.stages[5].confidence = ASSIGNMENT_MATCH_CONFIDENCE
    /\ call.stages[5].student # ret.student

\* the reasons of the stages of the call that ran, in order
RECURSIVE AttemptedReasons(_)
AttemptedReasons(k) ==
    IF k = 0 THEN <<>>
    ELSE AttemptedReasons(k - 1)
            \o (IF call.stages[k].ran THEN StageReasons(k) ELSE <<>>)

\* C16: an unresolved detection is a value: when no stage is confident, detect
\* returns student None, confidence 0, method 'ambiguous' and a non-empty
\* reasons list holding the reasons of every stage that was attempted.
C16_AmbiguousIsValue ==
    (call.fn = "detect" /\ \A k \in 1..Len(StageNames) : ~Resolves(k)) =>
        /\ ret.student = None
        /\ ret.confidence = 0
        /\ ret.method = "ambiguous"
        /\ ret.reasons # <<>>
        /\ (\E k \in 1..Len(StageNames) : call.stages[k].ran) =>
              ret.reasons = AttemptedReasons(Len(StageNames))

\* the candidates of the find_match call
CallCandidates == GetCandidates(call.parsed.date, call.assignments)

\* C19: matching ambiguity is a value: when the candidate set is empty, or no
\* candidate shares a signal with the parsed document (all sub-scores 0),
\* find_match returns assignment None, confidence 0 and non-empty reasons.
C19_NoMatchIsValue ==
    ( /\ call.fn = "find_match"
      /\ \A k \in 1..Len(CallCandidates) :
            ScoreMatch(call.parsed, CallCandidates[k]).subs = <<0, 0, 0>> )
    => /\ ret.assignment = None
       /\ ret.confidence = 0
       /\ ret.reasons # <<>>

FoundAt ==
    { call.found[s][w][v] : s \in Students, w \in {"head", "tail"}, v \in 1..2 }
        \ {NotFound}

\* C18: cover-sheet detection: a known student's full or first name within the
\* first 200 characters of the head or of the tail window gives a resolved
\* student with confidence >= 98 and method 'cover_sheet'; a name found only
\* elsewhere in the windows gives confidence 70.
C18_CoverSheet ==
    call.fn = "cover_sheet" =>
        /\ (\E p \in FoundAt : p < 200) =>
              /\ ret.student # None
              /\ ret.confidence >= 98
              /\ ret.method = "cover_sheet"
        /\ (FoundAt # {} /\ \A p \in FoundAt : p >= 200) =>
              /\ ret.student # None
              /\ ret.confidence = 70

\* a confidence of the parser or the detector, in points
InRange(c) == c \in 0..100

\* a confidence of the matcher, in 1/Scale point
InMatchRange(c) == c \in 0..Points(100)

\* C17: every confidence value lies in [0,100]: the parser's title, date and
\* score confidences, the confidence of the detection of every stage and of
\* detect, the confidence of the results of find_match and find_matches, and the
\* detection_confidence and match_confidence of the stored rows.
C17_ConfidenceRange ==
    /\ call.fn = "parse" =>
          /\ InRange(ret.title_confidence)
          /\ InRange(ret.date_confidence)
          /\ InRange(ret.score_confidence)
    /\ call.fn \in {"detect", "cover_sheet", "detect_from_name",
                     "detect_from_assignment"} => InRange(ret.confidence)
    /\ call.fn = "detect" =>
          \A k \in 1..Len(call.stages) : InRange(call.stages[k].confidence)
    /\ call.fn = "find_match" => InMatchRange(ret.confidence)
    /\ call.fn = "find_matches" =>
          \A k \in 1..Len(ret.matches) : InMatchRange(ret.matches[k].confidence)
    /\ \A d \in 1..Len(docs) :
          /\ InRange(docs[d].detection_confidence)
          /\ InMatchRange(docs[d].match_confidence)

\* find_match returned a result whose bonus was capped at 100
C17_Witness ==
    /\ call.fn = "find_match"
    /\ ret.assignment # None
    /\ ret.confidence = Points(100)
    /\ \E k \in 1..Len(ret.reasons) : ret.reasons[k] = "Multiple strong matches"

\* an OCR operation is under way or has returned
InOcr == call.fn \in {"process_image_bytes", "process_file", "extract"}

\* the attempts of a provider call are bounded, and the result after exhaustion
BoundedRetry ==
    InOcr =>
        /\ call.attempt < MAX_RETRIES
        /\ Len(call.waits) < MAX_RETRIES
        /\ call.provider_calls <= MAX_RETRIES * 3
        /\ (call.pc = "done" /\ call.last_error # Null /\ ~ret.success) =>
              /\ call.attempt = MAX_RETRIES - 1
              /\ ret.error = call.last_error
              /\ ~ret.raised

\* C21: bounded OCR retry: a failing provider call is attempted at most
\* MAX_RETRIES times and then given up; after exhaustion the operation has
\* returned an OCRResult with success = false and the last error as its error,
\* and has not raised; every operation that was started returns.
C21_BoundedRetry == []BoundedRetry /\ (InOcr ~> (InOcr /\ call.pc = "done"))

\* a PDF whose upload succeeded at once and whose signed URL failed three times
C21_Witness ==
    /\ InOcr
    /\ call.pc = "done"
    /\ call.steps = <<"files.get_signed_url", "ocr.process">>
    /\ call.provider_calls = 4
    /\ call.attempt = MAX_RETRIES - 1
    /\ ret = OCRResult(FALSE, "rate limit")

\* the mime types and formats the OCR client supports
SupportedMimes == ValidMimes \cup { <<"application", "pdf">> }
SupportedFormats == ImageFormats \cup PdfFormats

\* the input of the operation is outside the supported set
Unsupported ==
    \/ call.fn = "process_image_bytes" /\ call.input \notin ValidMimes
    \/ call.fn = "process_file" /\ call.input[2] \notin SupportedFormats
    \/ call.fn = "extract" /\ call.input \notin SupportedMimes

\* C22: unsupported input fails fast: for a mime type or file format outside the
\* supported set the operation returns success = false with an error at once,
\* with no provider call and no retry.
C22_UnsupportedFailsFast ==
    (InOcr /\ Unsupported) =>
        /\ call.pc = "done"
        /\ call.provider_calls = 0
        /\ call.waits = <<>>
        /\ ~ret.success
        /\ ret.error # Null

\* 2^n
RECURSIVE Pow2(_)
Pow2(n) == IF n = 0 THEN 1 ELSE 2 * Pow2(n - 1)

\* C23: backoff schedule: the waits between successive attempts of a retried
\* provider call start at 1 second, double after each failed attempt, and never
\* exceed 32 seconds.
C23_BackoffSchedule ==
    InOcr =>
        \A k \in 1..Len(call.waits) :
            call.waits[k] = Min(INITIAL_RETRY_DELAY * Pow2(k - 1), MAX_RETRY_DELAY)

\* the weighted sum of the sub-scores of a result, in 1/Scale point
Weighted(subs) == 5 * subs[1] + 3 * subs[2] + 2 * subs[3]

\* the number of sub-scores of a result above 70
Above70(subs) == Cardinality({ k \in 1..3 : subs[k] > 70 * SubScale })

\* C24: match score: the score of a candidate is 0.5 x title + 0.3 x date +
\* 0.2 x course with every sub-score in [0,100], and a bonus of 10, the total
\* capped at 100, is added exactly when at least two sub-scores exceed 70.
C24_MatchScore ==
    call.fn = "score_match" =>
        /\ \A k \in 1..3 : ret.subs[k] \in 0..(100 * SubScale)
        /\ Above70(ret.subs) >= 2 =>
              ret.total = Min(Weighted(ret.subs) + Points(10), Points(100))
        /\ Above70(ret.subs) < 2 => ret.total = Weighted(ret.subs)

\* title 71 and course 71 with no date: 49.7 + 10 points, bonus not capped
C24_Witness ==
    /\ call.fn = "score_match"
    /\ ret.subs = <<71 * SubScale, 0, 71 * SubScale>>
    /\ ret.total = Weighted(ret.subs) + Points(10)
    /\ ret.total < Points(100)

\* the day difference of a _score_match call whose document has a date
DayDifference == DaysDiff(call.parsed.date, call.assignment.due_at)
Dated == call.fn = "score_match" /\ call.parsed.date # NoDate

\* C25 as claimed: the date sub-score is 100 at d = 0, decreases linearly in d
\* reaching 0 at d = T, and is 0 for every d > T.
C25_DateProximityAsClaimed ==
    Dated =>
        /\ DayDifference = 0 => ret.subs[2] = 100 * SubScale
        /\ DayDifference \in 1..DATE_TOLERANCE_DAYS =>
              ret.subs[2] * DATE_TOLERANCE_DAYS
                  = 100 * SubScale * (DATE_TOLERANCE_DAYS - DayDifference)
        /\ DayDifference > DATE_TOLERANCE_DAYS => ret.subs[2] = 0

\* C25: date proximity sub-score: for a day difference d and tolerance T the
\* sub-score is 100 at d = 0, is 100 x (1 - d / (T + 1)) for 1 <= d <= T (so
\* 12.5 and not 0 at d = T = 7), and is 0 for every d > T.
C25_DateProximity ==
    Dated =>
        /\ DayDifference = 0 => ret.subs[2] = 100 * SubScale
        /\ DayDifference \in 1..DATE_TOLERANCE_DAYS =>
              ret.subs[2] * (DATE_TOLERANCE_DAYS + 1)
                  = 100 * SubScale * (DATE_TOLERANCE_DAYS + 1 - DayDifference)
        /\ DayDifference > DATE_TOLERANCE_DAYS => ret.subs[2] = 0

\* a document dated exactly T days from the due date scores 12.5 on the date
C25_Witness ==
    /\ Dated
    /\ DayDifference = DATE_TOLERANCE_DAYS
    /\ ret.subs[2] * 2 = 25 * SubScale

\* the score of the n-th candidate of the call, candidates in query order
CandidateScore(n) == Scored(call.parsed, CallCandidates[n]).confidence

\* C26: best-match selection and tie-break: for a non-empty candidate list
\* find_match returns a candidate of maximal score, the first of them in
\* candidate order; find_matches returns at most limit results in non-increasing
\* confidence order, in candidate order among equal scores, and its first
\* element is the result of find_match.
C26_BestMatch ==
    /\ (call.fn = "find_match" /\ CallCandidates # <<>>) =>
          \E n \in 1..Len(CallCandidates) :
             /\ ret.assignment = CallCandidates[n].id
             /\ ret.confidence = CandidateScore(n)
             /\ \A j \in 1..Len(CallCandidates) : CandidateScore(j) <= CandidateScore(n)
             /\ \A j \in 1..(n - 1) : CandidateScore(j) < CandidateScore(n)
    /\ call.fn = "find_matches" =>
          /\ Len(ret.matches) = Min(call.limit, Len(CallCandidates))
          /\ \A k \in 1..(Len(ret.matches) - 1) :
                \/ ret.matches[k].confidence > ret.matches[k + 1].confidence
                \/ /\ ret.matches[k].confidence = ret.matches[k + 1].confidence
                   /\ ret.matches[k].assignment < ret.matches[k + 1].assignment
          /\ ret.matches # <<>> =>
                ret.matches[1] = FindMatchOf(call.parsed, call.assignments)

\* two candidates with the same positive score: the first one is returned
C26_Witness ==
    /\ call.fn = "find_match"
    /\ Len(CallCandidates) = 2
    /\ CandidateScore(1) = CandidateScore(2)
    /\ CandidateScore(1) > 0
    /\ ret.assignment = CallCandidates[1].id

\* a numerator/denominator pair that plausibly is a date, as the claim words it
DateLikeAsClaimed(sc) ==
    \/ sc.earned <= 12 /\ sc.possible <= 31
    \/ sc.earned <= 31 /\ sc.possible \in 2020..2030

\* a numerator/denominator pair that is a month/day or a day/year
DateLike(sc) ==
    \/ sc.earned \in 1..12 /\ sc.possible \in 1..31
    \/ sc.earned \in 1..31 /\ sc.possible \in 2020..2030

\* the scores _extract_scores emitted from a numerator/denominator match
Fractions == { k \in 1..Len(ret.scores) : ret.scores[k].possible > 0 }

\* C27 as claimed: no emitted score has a pair with first <= 12 and second <= 31,
\* or first <= 31 and second a plausible year, a denominator above 1000, or a
\* percentage above 200.
C27_PlausibleScoresAsClaimed ==
    call.fn = "extract_scores" =>
        \A k \in Fractions :
            /\ ~DateLikeAsClaimed(ret.scores[k])
            /\ ret.scores[k].possible <= 1000
            /\ ret.scores[k].percentage <= 2000

\* C27: score plausibility filter: no emitted score has a pair that is a
\* month/day (1 <= first <= 12 and 1 <= second <= 31) or a day/year (1 <= first
\* <= 31 and second in 2020..2030), a denominator above 1000, or a percentage
\* above 200; a 5/12 fragment is never emitted.
C27_PlausibleScores ==
    call.fn = "extract_scores" =>
        \A k \in 1..Len(ret.scores) :
            /\ ~DateLike(ret.scores[k])
            /\ ret.scores[k].possible <= 1000
            /\ ret.scores[k].percentage <= 2000
            /\ ~(ret.scores[k].earned = 5 /\ ret.scores[k].possible = 12)

\* a text with the matches 5/12 and 64/32: only 64/32 (200 percent) is emitted
C27_Witness ==
    /\ call.fn = "extract_scores"
    /\ Len(call.matches) = 2
    /\ call.matches[1] = [earned |-> 5, possible |-> 12, date_context |-> FALSE]
    /\ call.matches[2] = [earned |-> 64, possible |-> 32, date_context |-> FALSE]
    /\ Len(ret.scores) = 1
    /\ ret.scores[1].earned = 64

\* the files that received an outcome in the latest run of the instance
Outcomes(i) == { results[i][k].file : k \in 1..Len(results[i]) }

\* C28: no reprocessing across polls: a file that received a terminal outcome
\* (processed, pending, failed or duplicate) in a polling run is not returned by
\* get_new_files in a later run of the same folder.
C28_NoReprocessing ==
    [][ \A i \in Instances : \A k \in 1..Len(batch'[i]) :
            batch'[i][k] \notin Outcomes(i) ]_vars

\* get_pending_documents(), cmd_list and send_pending_notifications: the rows
\* selected by student_id IS NULL
PendingDocuments == { d \in Rows : docs[d].student_id = None }

\* C29: pending bookkeeping agrees with status: a row saved by the pipeline has
\* status 'pending' exactly when its student reference is null, so the pending
\* listings return exactly the rows with status 'pending', and every 'processed'
\* row has a student.
C29_PendingAgrees ==
    /\ PendingDocuments = { d \in Rows : docs[d].status = "pending" }
    /\ \A d \in Rows : docs[d].status = "processed" => docs[d].student_id # None

(* ---- web assignment, one request per server thread: web/assign.py ------ *)
\* threads of the Flask server, each handling one request at a time with a
\* session of its own (get_session() creates a new Session per call)
Requests == {1, 2}

\* ids the URL can name: the students of the directory and an unknown one
RequestedStudents == Students \cup {3}

\* a thread between two requests
Idle == [pc |-> "idle"]

\* tokens of the e-mailed links: the document id signed, or not verifiable
Tokens == [doc : 1..3, valid : BOOLEAN]

\* verify_assign_token: the document id of a valid token, None otherwise
VerifyAssignToken(token) == IF token.valid THEN token.doc ELSE None

\* the locals of the pipeline when it saved a file with no student detected
PendingLocals(c) ==
    [NoLocals EXCEPT !.file_hash = Sha256(c),
                     !.ocr_result = "ok",
                     !.ocr_text = IF c = "A" THEN "text_a" ELSE "text_b",
                     !.parsed = Parse(IF c = "A" THEN "text_a" ELSE "text_b"),
                     !.status = "pending",
                     !.dest_folder = "Pending"]

\* the pipeline has saved both Drive files as pending, without a student, and
\* moved them to the Pending folder; the notification e-mail carries their links
InitWeb ==
    /\ content = [f \in Files |-> IF f = <<"drive", 2>> THEN "B" ELSE "A"]
    /\ location = [f \in Files |-> IF f[1] = "drive" THEN "Pending" ELSE "absent"]
    /\ docs = << NewRow("drive", <<"drive", 1>>, PendingLocals("A")),
                 NewRow("drive", <<"drive", 2>>, PendingLocals("B")) >>
    /\ pc = [i \in Instances |-> "idle"]
    /\ runs = [i \in Instances |-> 0]
    /\ batch = [i \in Instances |-> <<>>]
    /\ cur = [i \in Instances |-> <<i, 0>>]
    /\ loc = [i \in Instances |-> NoLocals]
    /\ calls = [i \in Instances |-> <<>>]
    /\ results = [i \in Instances |-> <<>>]
    /\ detector = [i \in Instances |-> NoCache]
    /\ students = Students
    /\ call = [r \in Requests |-> Idle]
    /\ ret = [r \in Requests |-> "none"]

\* assign_document up to "doc.student_id = student.id": the token is verified,
\* the document and the student are loaded into the request's session and the
\* attribute is set on the loaded object; nothing is flushed (autoflush=False)
WebLoad(r, token, student_id) ==
    /\ call[r].pc = "idle"
    /\ LET doc_id == VerifyAssignToken(token)
           respond(page) == /\ ret' = [ret EXCEPT ![r] = page]
                            /\ UNCHANGED call
       IN  IF doc_id = None
           THEN respond("error: invalid or expired link")
           ELSE IF doc_id \notin Rows
           THEN respond("error: document not found")
           ELSE IF /\ docs[doc_id].student_id # None
                   /\ docs[doc_id].student_id \in students
           THEN respond("success: already assigned")
           ELSE IF student_id \notin students
           THEN respond("error: student not found")
           ELSE /\ call' = [call EXCEPT ![r] = [pc |-> "assigning", doc |-> doc_id,
                                                student |-> student_id]]
                /\ ret' = [ret EXCEPT ![r] = "none"]
    /\ UNCHANGED <<students, detector, content, location, docs, pc, runs, batch, cur,
                   loc, calls, results>>

\* the rest of assign_document: find_match, session.commit() (an UPDATE of the
\* attributes the request set) and the move of the Drive file
WebCommit(r, matcher_ok) ==
    /\ call[r].pc = "assigning"
    /\ \E m \in MatchOutcomes(call[r].student) :
          docs' = [docs EXCEPT ![call[r].doc] =
                     Assigned(@, call[r].student, matcher_ok /\ m.assignment # None, m)]
    /\ \/ /\ docs[call[r].doc].source = "google_drive"
          /\ location' = [location EXCEPT ![docs[call[r].doc].file_id] = "Processed"]
       \/ UNCHANGED location
    /\ call' = [call EXCEPT ![r] = Idle]
    /\ ret' = [ret EXCEPT ![r] = "success: assigned"]
    /\ UNCHANGED <<students, detector, content, pc, runs, batch, cur, loc, calls, results>>

NextWeb ==
    \E r \in Requests :
        \/ \E token \in Tokens, student_id \in RequestedStudents : WebLoad(r, token, student_id)
        \/ \E matcher_ok \in BOOLEAN : WebCommit(r, matcher_ok)

\* the threads of the assignment server handle requests concurrently
SpecWeb == InitWeb /\ [][NextWeb]_vars

\* the student reference and the match fields of a row
AssignmentOf(row) ==
    <<row.student_id, row.assignment_id, row.match_confidence, row.match_method>>

\* request r commits its assignment in this step
Commits(r) == call[r].pc = "assigning" /\ call'[r].pc = "idle"

\* C30: first web assignment wins: once a document's student reference is set,
\* a later or concurrently handled web assign request for it that names a
\* different student leaves the student reference and the match fields
\* unchanged, and two requests for one document never both write a student.
C30_FirstWebAssignWins ==
    [][ \A r \in Requests :
          Commits(r) =>
             /\ docs[call[r].doc].student_id \notin {None, call[r].student}
                   => AssignmentOf(docs'[call[r].doc]) = AssignmentOf(docs[call[r].doc])
             /\ docs[call[r].doc].student_id = None ]_vars

====
